---- MODULE Spec2Model ----
(***************************************************************************)
(* A model of tcg: the grid value model (grid.py), the operator catalog    *)
(* (operators.py) and the language / trajectory generation (language.py).  *)
(***************************************************************************)
EXTENDS Integers, Sequences, FiniteSets, TLC

VARIABLES
    tok,         \* a token Position that move / turn are applied to
    last,        \* the last grid operation applied and what it returned
    routes_call, \* the last direct_routes call: arguments and routes yielded
    vals,        \* Operator.vals of every operator object (shared, mutable)
    langs,       \* the Language objects constructed so far
    traj_call    \* the last ext_trajects call: arguments, blocks, yields

vars == <<tok, last, routes_call, vals, langs, traj_call>>

-----------------------------------------------------------------------------
(* Bounds of the model.                                                    *)

\* Orient + k and Orient - k are applied for k in -MaxK..MaxK.
MaxK == 6
\* move() does not check the grid; the token may leave it by MaxOff cells.
MaxOff == 1

-----------------------------------------------------------------------------
(* grid.py                                                                 *)

\* on_grid: grid = product(range(3), repeat=2)
GridSize == 3

None == "None"

Loc(x, y) == [x |-> x, y |-> y]

Orient(val) == [val |-> val]

Position(loc, orient) == [loc |-> loc, orient |-> orient]

move_str2arr ==
    [m \in {"up", "right", "down", "left"} |->
        CASE m = "up" -> <<0, 1>>
          [] m = "right" -> <<1, 0>>
          [] m = "down" -> <<0, -1>>
          [] m = "left" -> <<-1, 0>>]

move_int2arr ==
    [m \in 1..4 |->
        CASE m = 1 -> <<0, 1>>
          [] m = 2 -> <<1, 0>>
          [] m = 3 -> <<0, -1>>
          [] m = 4 -> <<-1, 0>>]

\* Loc.__add__ with a str move (isinstance(move, str)).
LocAddStr(loc, m) == Loc(loc.x + move_str2arr[m][1], loc.y + move_str2arr[m][2])

\* Loc.__add__ with an int move (isinstance(move, int)); a code that is not
\* a key of move_int2arr raises KeyError, see wiggle.
LocAddInt(loc, m) == Loc(loc.x + move_int2arr[m][1], loc.y + move_int2arr[m][2])

\* Loc.__sub__: the distance (x_dist, y_dist) between self and other.
LocSub(self, other) == <<self.x - other.x, self.y - other.y>>

OrientAddWrap4(self, int_val) ==
    IF self.val = 0 THEN self ELSE Orient(((self.val + int_val - 1) % 4) + 1)

\* Orient.__add__
OrientAdd(self, int_val) ==
    IF self.val = 0 THEN self ELSE Orient((self.val + int_val) % 5)

\* Orient.__sub__
OrientSub(self, int_val) ==
    IF self.val = 0 THEN Orient(0) ELSE Orient((self.val - int_val) % 5)

\* Position.move with a str move.
move(self, m) == Position(LocAddStr(self.loc, m), self.orient)

\* Position.move with an int move.
moveInt(self, m) == Position(LocAddInt(self.loc, m), self.orient)

RECURSIVE move_seq_from(_, _)
move_seq_from(seqs, moves) ==
    IF moves = <<>> THEN seqs
    ELSE move_seq_from(
            Append(seqs, Position(LocAddStr(seqs[Len(seqs)].loc, Head(moves)),
                                  seqs[Len(seqs)].orient)),
            Tail(moves))

\* Position.move_seq: the start position followed by one position per move.
move_seq(self, moves) == move_seq_from(<<self>>, moves)

\* Position.turn; any other turn token raises ValueError.
turn(self, t) ==
    IF t = "clock" THEN Position(self.loc, OrientAdd(self.orient, 1))
    ELSE IF t = "counter" THEN Position(self.loc, OrientSub(self.orient, 1))
    ELSE "ValueError"

\* on_grid for a Loc object.
on_grid(loc) == loc.x \in 0..(GridSize - 1) /\ loc.y \in 0..(GridSize - 1)

GridLocs == {Loc(x, y) : x \in 0..(GridSize - 1), y \in 0..(GridSize - 1)}

OrientVals == 0..4

-----------------------------------------------------------------------------
(* language.py: direct routes                                              *)

Abs(n) == IF n < 0 THEN -n ELSE n

RECURSIVE Flatten(_)
Flatten(ss) == IF ss = <<>> THEN <<>> ELSE Head(ss) \o Flatten(Tail(ss))

Repeat(x, n) == [i \in 1..n |-> x]

RECURSIVE list_of_len_with_sum_short_range(_, _)
list_of_len_with_sum_short_range(length, summ) ==
    IF length = 0 /\ summ = 0 THEN << <<>> >>
    ELSE IF length > 0 THEN
        Flatten([i \in 1..summ |->
            LET idx == i - 1
                rest == list_of_len_with_sum_short_range(length - 1, summ - idx)
            IN  [j \in 1..Len(rest) |-> <<idx>> \o rest[j]]])
    ELSE <<>>

RECURSIVE list_of_len_with_sum(_, _)
\* The templates in the order the generator yields them.
list_of_len_with_sum(length, summ) ==
    IF length = 0 /\ summ = 0 THEN << <<>> >>
    ELSE IF length > 0 THEN
        Flatten([i \in 1..(summ + 1) |->
            LET idx == i - 1
                rest == list_of_len_with_sum(length - 1, summ - idx)
            IN  [j \in 1..Len(rest) |-> <<idx>> \o rest[j]]])
    ELSE <<>>

direct_route_moves_keep_last(x_template, x_move, y_move) ==
    Flatten([i \in 1..Len(x_template) |->
        Append(Repeat(x_move, x_template[i]), y_move)])

\* [x_move] * num_x_moves + [y_move] for every int of the template, chained,
\* without the last element ([:-1]).
direct_route_moves(x_template, x_move, y_move) ==
    LET all == Flatten([i \in 1..Len(x_template) |->
                   Append(Repeat(x_move, x_template[i]), y_move)])
    IN  SubSeq(all, 1, Len(all) - 1)

direct_routes_always_right(start, finish) ==
    LET dist == LocSub(finish.loc, start.loc)
        y_move == IF dist[2] < 0 THEN "down" ELSE "up"
        templates == list_of_len_with_sum(Abs(dist[2]) + 1, Abs(dist[1]))
    IN  [i \in 1..Len(templates) |->
            move_seq(start, direct_route_moves(templates[i], "right", y_move))]

\* direct_routes: the routes in the order the generator yields them.
direct_routes(start, finish) ==
    LET dist == LocSub(finish.loc, start.loc)
        x_move == IF dist[1] < 0 THEN "left" ELSE "right"
        y_move == IF dist[2] < 0 THEN "down" ELSE "up"
        templates == list_of_len_with_sum(Abs(dist[2]) + 1, Abs(dist[1]))
    IN  [i \in 1..Len(templates) |->
            move_seq(start, direct_route_moves(templates[i], x_move, y_move))]

-----------------------------------------------------------------------------
(* operators.py                                                            *)

\* A variable of an operator's vals dict: None, or the value bound to it.
Unbound == <<>>
Bound(x) == <<x>>

\* A raised exception, and a returned sequence of Positions.
Raise(kind) == [raised |-> kind, seq |-> <<>>]
Return(seq) == [raised |-> None, seq |-> seq]

\* pauze: func_vars, pos_vals, the vals dict as created, and func.
pauze ==
    [name |-> "pauze",
     func_vars |-> <<"position", "dirc_place_holder", "duration">>,
     pos_vals |-> [duration |-> {1, 2}],
     vals |-> [duration |-> Unbound]]

\* lambda pos, dirc, dur: [deepcopy(pos) for _ in range(dur + 1)]
pauze_func(pos, dirc, dur) ==
    IF dur = Unbound THEN Raise("TypeError")
    ELSE Return([i \in 1..(dur[1] + 1) |-> pos])

\* wiggle: func_vars, pos_vals, the vals dict as created, and func.
wiggle ==
    [name |-> "wiggle",
     func_vars |-> <<"position", "direction", "width", "repetition">>,
     pos_vals |-> [direction |-> {"up", "right", "down", "left"},
                   width |-> {1, 2},
                   repetition |-> {1, 2}],
     vals |-> [width |-> Unbound, repetition |-> Unbound]]

\* lambda pos, dirc, width, rep: [pos, pos.move(dirc), pos] + list(chain(
\*     [(pos.move(dirc), pos) for _ in range(rep - 1)]))
\* dirc is the int goal.orient.val: Loc.__add__ looks it up in move_int2arr.
wiggle_func(pos, dirc, width, rep) ==
    IF dirc \notin DOMAIN move_int2arr THEN Raise("KeyError")
    ELSE IF rep = Unbound THEN Raise("TypeError")
    ELSE Return(<<pos, moveInt(pos, dirc), pos>>
                \o Flatten([i \in 1..(rep[1] - 1) |-> <<moveInt(pos, dirc), pos>>]))

\* get_all_operators(): the Operator objects of operators.py.
operators == {"pauze", "wiggle"}

\* An Operator a caller of language.py constructs: its func walks from the
\* given position, lambda pos, dirc, moves: pos.move_seq(moves).
RECURSIVE SeqsUpTo(_, _)
SeqsUpTo(S, n) ==
    IF n = 0 THEN {<<>>}
    ELSE SeqsUpTo(S, n - 1)
         \cup {Append(q, x) : q \in {r \in SeqsUpTo(S, n - 1) : Len(r) = n - 1}, x \in S}

\* The longest move list bound to walk's variable "moves".
MaxWalk == 2

walk ==
    [name |-> "walk",
     func_vars |-> <<"position", "dirc_place_holder", "moves">>,
     pos_vals |-> [moves |-> SeqsUpTo(DOMAIN move_str2arr, MaxWalk)],
     vals |-> [moves |-> Unbound]]

walk_func(pos, dirc, moves) ==
    IF moves = Unbound THEN Raise("TypeError")
    ELSE Return(move_seq(pos, moves[1]))

OperatorNamed(name) ==
    CASE name = "pauze" -> pauze
      [] name = "wiggle" -> wiggle
      [] name = "walk" -> walk

\* Operator.__call__ = lambda self, *args: self.func(*args), as ext_trajects
\* calls it: opr(goal, goal.orient.val, *[opr.vals[var] for var in
\* opr.func_vars[2:]]), with v the operator's vals dict.
OperatorCall(name, v, goal) ==
    CASE name = "pauze" -> pauze_func(goal, goal.orient.val, v.duration)
      [] name = "wiggle" ->
            wiggle_func(goal, goal.orient.val, v.width, v.repetition)
      [] name = "walk" -> walk_func(goal, goal.orient.val, v.moves)

-----------------------------------------------------------------------------
(* language.py: Language and ext_trajects                                  *)

RECURSIVE Choices(_, _)
\* One random.choice(pos_vals) for every var of D.
Choices(pos_vals, D) ==
    IF D = {} THEN {<<>>}
    ELSE LET var == CHOOSE v \in D : TRUE
         IN  {f @@ (var :> Bound(x)) :
                 f \in Choices(pos_vals, D \ {var}), x \in pos_vals[var]}

\* set_opr_vars: the vals dicts that opr.vals[var] = random.choice(pos_vals)
\* for every var of opr.pos_vals can leave behind, from the dict old.
set_opr_vars(opr, old) ==
    {chosen @@ old : chosen \in Choices(opr.pos_vals, DOMAIN opr.pos_vals)}

\* Language.__init__(operators, operators): the (language, vals) pairs it can
\* leave behind, from the operators' vals v.
Language(loc_oprs, orient_oprs, v) ==
    UNION {
      UNION {
        LET v1 == [v EXCEPT ![loc_opr] = loc_vals]
            remain_oprs == orient_oprs \ {loc_opr}
        IN  UNION {
              {<<[loc_opr |-> loc_opr, orient_opr |-> orient_opr,
                  signal_order |-> signal_order],
                 [v1 EXCEPT ![orient_opr] = orient_vals]>> :
               orient_vals \in set_opr_vars(OperatorNamed(orient_opr), v1[orient_opr]),
               signal_order \in {<<"loc", "orient">>, <<"orient", "loc">>}} :
              orient_opr \in remain_oprs} :
        loc_vals \in set_opr_vars(OperatorNamed(loc_opr), v[loc_opr])} :
      loc_opr \in loc_oprs}

AllButLast(seq) == SubSeq(seq, 1, Len(seq) - 1)
Inner_from_third(seq) == SubSeq(seq, 3, Len(seq) - 1)

\* seq[1:-1]
Inner(seq) == SubSeq(seq, 2, Len(seq) - 1)

stitch_keep_start_end(start_seq, comm_seq_1, mid_seq, comm_seq_2, end_seq) ==
    IF comm_seq_1[Len(comm_seq_1)] = comm_seq_2[1]
    THEN start_seq \o comm_seq_1 \o Tail(comm_seq_2) \o Tail(end_seq)
    ELSE AllButLast(start_seq) \o comm_seq_1 \o Inner(mid_seq)
         \o comm_seq_2 \o Tail(end_seq)

stitch_keep_junction(start_seq, comm_seq_1, mid_seq, comm_seq_2, end_seq) ==
    IF comm_seq_1[Len(comm_seq_1)] = comm_seq_2[1]
    THEN AllButLast(start_seq) \o comm_seq_1 \o comm_seq_2 \o Tail(end_seq)
    ELSE AllButLast(start_seq) \o comm_seq_1 \o Inner(mid_seq)
         \o comm_seq_2 \o Tail(end_seq)

stitch_keep_mid_ends(start_seq, comm_seq_1, mid_seq, comm_seq_2, end_seq) ==
    IF comm_seq_1[Len(comm_seq_1)] = comm_seq_2[1]
    THEN AllButLast(start_seq) \o comm_seq_1 \o Tail(comm_seq_2) \o Tail(end_seq)
    ELSE AllButLast(start_seq) \o comm_seq_1 \o mid_seq
         \o comm_seq_2 \o Tail(end_seq)

\* The trajectory ext_trajects yields for one start_seq, mid_seq and end_seq.
stitch(start_seq, comm_seq_1, mid_seq, comm_seq_2, end_seq) ==
    IF comm_seq_1[Len(comm_seq_1)] = comm_seq_2[1]
    THEN AllButLast(start_seq) \o comm_seq_1 \o Tail(comm_seq_2) \o Tail(end_seq)
    ELSE AllButLast(start_seq) \o comm_seq_1 \o Inner(mid_seq)
         \o comm_seq_2 \o Tail(end_seq)

Failed(kind, comm_seq_1, comm_seq_2) ==
    [raised |-> kind, comm_seq_1 |-> comm_seq_1, comm_seq_2 |-> comm_seq_2,
     start_seqs |-> <<>>, mid_seqs |-> <<>>, end_seqs |-> <<>>,
     picks |-> <<>>, out |-> <<>>]

yield_loop_skips_mid(start_seqs, mid_seqs, end_seqs) ==
    Flatten([i \in 1..Len(start_seqs) |->
        [k \in 1..Len(end_seqs) |-> <<i, 1, k>>]])

\* for start_seq in start_seqs: for mid_seq in mid_seqs: for end_seq in
\* end_seqs: the indices of the blocks of every yield, in order.
yield_loop(start_seqs, mid_seqs, end_seqs) ==
    Flatten([i \in 1..Len(start_seqs) |->
        Flatten([j \in 1..Len(mid_seqs) |->
            [k \in 1..Len(end_seqs) |-> <<i, j, k>>]])])

ext_trajects_unchecked(lang, v, goal, start_pos, end_pos) ==
    LET loc_res == OperatorCall(lang.loc_opr, v[lang.loc_opr], goal)
        orient_res == OperatorCall(lang.orient_opr, v[lang.orient_opr], goal)
        first_is_loc == lang.signal_order = <<"loc", "orient">>
        comm_seq_1 == IF first_is_loc THEN loc_res.seq ELSE orient_res.seq
        comm_seq_2 == IF first_is_loc THEN orient_res.seq ELSE loc_res.seq
        c1 == IF comm_seq_1 = <<>> THEN <<goal>> ELSE comm_seq_1
        c2 == IF comm_seq_2 = <<>> THEN <<goal>> ELSE comm_seq_2
        start_seqs == direct_routes(start_pos, c1[1])
        mid_seqs == direct_routes(c1[Len(c1)], c2[1])
        end_seqs == direct_routes(c2[Len(c2)], end_pos)
        picks == yield_loop(start_seqs, mid_seqs, end_seqs)
    IN  [raised |-> None, comm_seq_1 |-> comm_seq_1, comm_seq_2 |-> comm_seq_2,
         start_seqs |-> start_seqs, mid_seqs |-> mid_seqs,
         end_seqs |-> end_seqs, picks |-> picks,
         out |-> [n \in 1..Len(picks) |->
                    AllButLast(start_seqs[picks[n][1]]) \o comm_seq_1
                    \o Inner(mid_seqs[picks[n][2]]) \o comm_seq_2
                    \o Tail(end_seqs[picks[n][3]])]]

\* list(ext_trajects(lang, goal, (start_pos, end_pos))) with the operators'
\* vals v: the exception that ended the iteration (or None), the building
\* blocks, and the trajectories yielded, in order.
ext_trajects(lang, v, goal, start_pos, end_pos) ==
    LET loc_res == OperatorCall(lang.loc_opr, v[lang.loc_opr], goal)
        orient_res == OperatorCall(lang.orient_opr, v[lang.orient_opr], goal)
        first_is_loc == lang.signal_order = <<"loc", "orient">>
        comm_seq_1 == IF first_is_loc THEN loc_res.seq ELSE orient_res.seq
        comm_seq_2 == IF first_is_loc THEN orient_res.seq ELSE loc_res.seq
    IN  IF loc_res.raised # None THEN Failed(loc_res.raised, <<>>, <<>>)
        ELSE IF orient_res.raised # None
        THEN Failed(orient_res.raised, <<>>, <<>>)
        ELSE IF comm_seq_1 = <<>> \/ comm_seq_2 = <<>>
        THEN Failed("IndexError", comm_seq_1, comm_seq_2)
        ELSE
        LET start_seqs == direct_routes(start_pos, comm_seq_1[1])
            mid_seqs == direct_routes(comm_seq_1[Len(comm_seq_1)], comm_seq_2[1])
            end_seqs == direct_routes(comm_seq_2[Len(comm_seq_2)], end_pos)
            picks == yield_loop(start_seqs, mid_seqs, end_seqs)
        IN  [raised |-> None,
             comm_seq_1 |-> comm_seq_1, comm_seq_2 |-> comm_seq_2,
             start_seqs |-> start_seqs, mid_seqs |-> mid_seqs,
             end_seqs |-> end_seqs, picks |-> picks,
             out |-> [n \in 1..Len(picks) |->
                        stitch(start_seqs[picks[n][1]], comm_seq_1,
                               mid_seqs[picks[n][2]], comm_seq_2,
                               end_seqs[picks[n][3]])]]

-----------------------------------------------------------------------------
(* State of the parts a specification leaves idle.                         *)

NoCall == [op |-> None]
IdleTok == Position(Loc(0, 0), Orient(1))

-----------------------------------------------------------------------------
(* SpecGrid: a token on the grid, moved and turned; orientation arithmetic. *)

InitGrid ==
    /\ tok \in {Position(l, Orient(v)) : l \in GridLocs, v \in OrientVals}
    /\ last = NoCall
    /\ routes_call = NoCall
    /\ vals = <<>>
    /\ langs = <<>>
    /\ traj_call = NoCall

InBox(loc) ==
    /\ loc.x \in (0 - MaxOff)..(GridSize - 1 + MaxOff)
    /\ loc.y \in (0 - MaxOff)..(GridSize - 1 + MaxOff)

\* pos = pos.move(m)
Move ==
    \E m \in DOMAIN move_str2arr :
        /\ InBox(move(tok, m).loc)
        /\ tok' = move(tok, m)
        /\ last' = [op |-> "move", self |-> tok, arg |-> m, result |-> tok']
        /\ UNCHANGED <<routes_call, vals, langs, traj_call>>

\* pos = pos.turn(t)
Turn ==
    \E t \in {"clock", "counter"} :
        /\ tok' = turn(tok, t)
        /\ last' = [op |-> "turn", self |-> tok, arg |-> t, result |-> tok']
        /\ UNCHANGED <<routes_call, vals, langs, traj_call>>

\* pos.turn(t) with an invalid token raises and leaves pos as it was.
TurnInvalid ==
    /\ last' = [op |-> "turn", self |-> tok, arg |-> "flip",
                result |-> turn(tok, "flip")]
    /\ UNCHANGED <<tok, routes_call, vals, langs, traj_call>>

\* tok.orient + k
OrientPlus ==
    \E k \in (0 - MaxK)..MaxK :
        /\ last' = [op |-> "add", self |-> tok, arg |-> k,
                    result |-> OrientAdd(tok.orient, k)]
        /\ UNCHANGED <<tok, routes_call, vals, langs, traj_call>>

\* tok.orient - k
OrientMinus ==
    \E k \in (0 - MaxK)..MaxK :
        /\ last' = [op |-> "sub", self |-> tok, arg |-> k,
                    result |-> OrientSub(tok.orient, k)]
        /\ UNCHANGED <<tok, routes_call, vals, langs, traj_call>>

NextGrid == Move \/ Turn \/ TurnInvalid \/ OrientPlus \/ OrientMinus

SpecGrid == InitGrid /\ [][NextGrid]_vars

-----------------------------------------------------------------------------
(* SpecRoutes: direct_routes applied to every start and finish on the grid. *)

InitRoutes ==
    /\ tok = IdleTok
    /\ last = NoCall
    /\ \E s \in GridLocs, f \in GridLocs, v \in OrientVals, w \in OrientVals :
           routes_call = [op |-> None,
                          start |-> Position(s, Orient(v)),
                          finish |-> Position(f, Orient(w)),
                          out |-> <<>>]
    /\ vals = <<>>
    /\ langs = <<>>
    /\ traj_call = NoCall

\* list(direct_routes(start, finish))
DirectRoutes ==
    /\ routes_call.op = None
    /\ routes_call' = [routes_call EXCEPT
           !.op = "direct_routes",
           !.out = direct_routes(routes_call.start, routes_call.finish)]
    /\ UNCHANGED <<tok, last, vals, langs, traj_call>>

NextRoutes == DirectRoutes

SpecRoutes == InitRoutes /\ [][NextRoutes]_vars

-----------------------------------------------------------------------------
(* Spec: languages built from the operator catalog, and their trajectories. *)

\* The number of Language objects constructed.
MaxLangs == 2

NoTrajects ==
    [op |-> None, lang |-> None, goal |-> None, start |-> None, finish |-> None]

Init ==
    /\ tok = IdleTok
    /\ last = NoCall
    /\ routes_call = NoCall
    /\ vals = [name \in operators |-> OperatorNamed(name).vals]
    /\ langs = <<>>
    /\ traj_call = NoTrajects @@ Failed(None, <<>>, <<>>)

\* s_lang = Language(operators, operators)
LanguageInit ==
    /\ Len(langs) < MaxLangs
    /\ \E made \in Language(operators, operators, vals) :
           /\ langs' = Append(langs, made[1])
           /\ vals' = made[2]
    /\ UNCHANGED <<tok, last, routes_call, traj_call>>

\* The goals and the start and finish of language.py's main block: pos3 in
\* any orientation, pos1 and pos7.
MainGoals == {Position(Loc(1, 1), Orient(v)) : v \in OrientVals}
MainStart == Position(Loc(0, 0), Orient(1))
MainFinish == Position(Loc(2, 2), Orient(3))

\* list(ext_trajects(lang, goal, (pos1, pos7))) for a constructed language.
ExtTrajects ==
    /\ \E i \in 1..Len(langs), goal \in MainGoals :
           traj_call' =
               [op |-> "ext_trajects", lang |-> langs[i], goal |-> goal,
                start |-> MainStart, finish |-> MainFinish]
               @@ ext_trajects(langs[i], vals, goal, MainStart, MainFinish)
    /\ UNCHANGED <<tok, last, routes_call, vals, langs>>

Next == LanguageInit \/ ExtTrajects

Spec == Init /\ [][Next]_vars

-----------------------------------------------------------------------------
(* SpecCompose: ext_trajects for a language configured by its caller: the  *)
(* operators of the catalog and walk, each with values bound to its vals.  *)

ComposeOperators == operators \cup {"walk"}

\* The values a caller binds: those of pos_vals and, for pauze, the
\* durations 0 (one position) and -1 (no position).
BoundVals(name) ==
    CASE name = "pauze" ->
            {[duration |-> Bound(d)] : d \in pauze.pos_vals.duration \cup {-1, 0}}
      [] name = "wiggle" ->
            {[width |-> Bound(w), repetition |-> Bound(r)] :
                w \in wiggle.pos_vals.width, r \in wiggle.pos_vals.repetition}
      [] name = "walk" -> {[moves |-> Bound(m)] : m \in walk.pos_vals.moves}

ComposeGoals == {Position(l, Orient(v)) : l \in GridLocs, v \in OrientVals}
ComposeStarts == {Loc(0, 0), Loc(2, 2)}
ComposeFinishes == {Loc(1, 0), Loc(0, 2)}

InitCompose ==
    /\ tok = IdleTok
    /\ last = NoCall
    /\ routes_call = NoCall
    /\ \E loc_opr \in ComposeOperators :
       \E orient_opr \in ComposeOperators \ {loc_opr} :
       \E loc_vals \in BoundVals(loc_opr), orient_vals \in BoundVals(orient_opr) :
       \E signal_order \in {<<"loc", "orient">>, <<"orient", "loc">>} :
       \E goal \in ComposeGoals, s \in ComposeStarts, f \in ComposeFinishes :
           /\ vals = [name \in ComposeOperators |->
                        IF name = loc_opr THEN loc_vals
                        ELSE IF name = orient_opr THEN orient_vals
                        ELSE OperatorNamed(name).vals]
           /\ langs = <<[loc_opr |-> loc_opr, orient_opr |-> orient_opr,
                         signal_order |-> signal_order]>>
           /\ traj_call =
                  [op |-> None, lang |-> langs[1], goal |-> goal,
                   start |-> Position(s, goal.orient),
                   finish |-> Position(f, goal.orient)]
                  @@ Failed(None, <<>>, <<>>)

\* list(ext_trajects(lang, goal, (start, finish)))
Compose ==
    /\ traj_call.op = None
    /\ traj_call' =
           [op |-> "ext_trajects", lang |-> traj_call.lang,
            goal |-> traj_call.goal, start |-> traj_call.start,
            finish |-> traj_call.finish]
           @@ ext_trajects(traj_call.lang, vals, traj_call.goal,
                           traj_call.start, traj_call.finish)
    /\ UNCHANGED <<tok, last, routes_call, vals, langs>>

NextCompose == Compose

SpecCompose == InitCompose /\ [][NextCompose]_vars

-----------------------------------------------------------------------------
(* Properties of direct_routes (SpecRoutes).                               *)

RECURSIVE Binom(_, _)
Binom(n, k) == IF k = 0 \/ k = n THEN 1 ELSE Binom(n - 1, k - 1) + Binom(n - 1, k)

RoutesCalled == routes_call.op = "direct_routes"
EqualOrient == routes_call.start.orient = routes_call.finish.orient
RDist == LocSub(routes_call.finish.loc, routes_call.start.loc)

\* C1: for start and finish on the 3x3 lattice with equal orientation,
\* direct_routes yields exactly C(|dx|+|dy|, |dy|) routes, no two of them equal.
C1_RouteCount ==
    (RoutesCalled /\ EqualOrient) =>
        /\ Len(routes_call.out) = Binom(Abs(RDist[1]) + Abs(RDist[2]), Abs(RDist[2]))
        /\ \A i, j \in 1..Len(routes_call.out) :
               i # j => routes_call.out[i] # routes_call.out[j]
        /\ (RDist = <<0, 0>> => routes_call.out = << <<routes_call.start>> >>)

C1_Witness ==
    /\ RoutesCalled /\ EqualOrient
    /\ routes_call.start.loc = Loc(0, 0) /\ routes_call.finish.loc = Loc(2, 1)
    /\ Len(routes_call.out) = 3

\* C2: every route yielded for positions of equal orientation on the lattice
\* has |dx|+|dy|+1 positions, each on the grid and of the start's orientation.
C2_RouteShape ==
    (RoutesCalled /\ EqualOrient) =>
        \A i \in 1..Len(routes_call.out) :
            /\ Len(routes_call.out[i]) = Abs(RDist[1]) + Abs(RDist[2]) + 1
            /\ \A n \in 1..Len(routes_call.out[i]) :
                   /\ on_grid(routes_call.out[i][n].loc)
                   /\ routes_call.out[i][n].orient = routes_call.start.orient

C2_Witness ==
    /\ RoutesCalled /\ EqualOrient
    /\ routes_call.start.loc = Loc(2, 2) /\ routes_call.finish.loc = Loc(0, 0)
    /\ Len(routes_call.out) = 6
    /\ \A i \in 1..6 : Len(routes_call.out[i]) = 5

\* C3: every route begins with start, ends at finish's location, and each
\* step is one move in the fixed x-direction or the fixed y-direction, so that
\* no location is visited twice.
C3_RouteMonotone ==
    RoutesCalled =>
        LET x_move == IF RDist[1] >= 0 THEN "right" ELSE "left"
            y_move == IF RDist[2] >= 0 THEN "up" ELSE "down"
        IN  \A i \in 1..Len(routes_call.out) :
                LET r == routes_call.out[i] IN
                /\ Len(r) >= 1
                /\ r[1] = routes_call.start
                /\ r[Len(r)].loc = routes_call.finish.loc
                /\ \A n \in 1..(Len(r) - 1) :
                       r[n + 1] \in {move(r[n], x_move), move(r[n], y_move)}
                /\ \A n, m \in 1..Len(r) : n # m => r[n].loc # r[m].loc

C3_Witness ==
    /\ RoutesCalled
    /\ routes_call.start.loc = Loc(2, 0) /\ routes_call.finish.loc = Loc(0, 2)
    /\ \E i \in 1..Len(routes_call.out) :
           /\ Len(routes_call.out[i]) = 5
           /\ routes_call.out[i][2].loc = Loc(1, 0)
           /\ routes_call.out[i][3].loc = Loc(1, 1)

-----------------------------------------------------------------------------
(* Properties of the orientation arithmetic (SpecGrid).                    *)

\* r is the residue of n modulo 5.
IsMod5(n, r) == r \in 0..4 /\ \E q \in (0 - MaxK - 1)..(MaxK + 1) : n = 5 * q + r

Turn4(p, t) == turn(turn(turn(turn(p, t), t), t), t)

\* C7: the orientations 1-4 form a cyclic group of order 4 under turning: a
\* turn of a position with orientation in 1..4 gives an orientation in 1..4,
\* four turns in one direction return the original orientation, and a
\* clockwise turn followed by a counter-clockwise turn returns the position.
C7_CyclicGroup ==
    (last.op = "turn" /\ last.arg \in {"clock", "counter"}
        /\ last.self.orient.val \in 1..4) =>
        /\ last.result.orient.val \in 1..4
        /\ Turn4(last.self, last.arg).orient = last.self.orient
        /\ turn(turn(last.self, "clock"), "counter") = last.self

-----------------------------------------------------------------------------
(* Properties of ext_trajects (SpecCompose).                               *)

Yielded == traj_call.op = "ext_trajects" /\ traj_call.raised = None
c1 == traj_call.comm_seq_1
c2 == traj_call.comm_seq_2
Overlap == c1[Len(c1)] = c2[1]

\* The blocks of the n-th trajectory yielded, and the index in it of the
\* last position of comm_seq_1.
StartSeg(n) == traj_call.start_seqs[traj_call.picks[n][1]]
MidSeg(n) == traj_call.mid_seqs[traj_call.picks[n][2]]
FinishSeg(n) == traj_call.end_seqs[traj_call.picks[n][3]]
Junction(n) == Len(StartSeg(n)) - 1 + Len(c1)

SeamLength(n) ==
    Len(traj_call.out[n]) =
        Len(StartSeg(n)) - 1 + Len(c1) + Len(c2) - 1 + Len(FinishSeg(n)) - 1

\* C4 as stated: when comm_seq_1's last position equals comm_seq_2's first,
\* no trajectory has two consecutive identical positions at that junction,
\* and its length is len(start_seg)-1 + len(comm_seq_1) + len(comm_seq_2)-1
\* + len(finish_seg)-1.
C4_NoRepeatAtJunction ==
    (Yielded /\ Overlap) =>
        \A n \in 1..Len(traj_call.out) :
            /\ SeamLength(n)
            /\ Junction(n) < Len(traj_call.out[n]) =>
                   traj_call.out[n][Junction(n) + 1] # traj_call.out[n][Junction(n)]

\* C4 as amended: in the overlap case the junction position is taken over
\* once: the trajectory is start_seg[:-1] + comm_seq_1 + comm_seq_2[1:] +
\* finish_seg[1:], of the stated length, and a position next to the junction
\* equals it only where an operator's own output repeats it there.
C4_SeamDedup ==
    (Yielded /\ Overlap) =>
        \A n \in 1..Len(traj_call.out) :
            LET t == traj_call.out[n]
                j == Junction(n)
            IN  /\ SeamLength(n)
                /\ t[j] = c1[Len(c1)]
                /\ SubSeq(t, j + 1, j + Len(c2) - 1) = Tail(c2)
                /\ (j < Len(t) /\ t[j + 1] = t[j]) =>
                       (Len(c2) >= 2 /\ c2[2] = c2[1])
                /\ (j > 1 /\ t[j - 1] = t[j]) =>
                       (Len(c1) >= 2 /\ c1[Len(c1) - 1] = c1[Len(c1)])

C4_Witness ==
    /\ Yielded /\ Overlap
    /\ traj_call.lang.loc_opr = "wiggle" /\ traj_call.lang.orient_opr = "pauze"
    /\ traj_call.lang.signal_order = <<"loc", "orient">>
    /\ Len(c2) = 3
    /\ Len(traj_call.out) > 1
    /\ \E n \in 1..Len(traj_call.out) :
           traj_call.out[n][Junction(n) + 1] = traj_call.out[n][Junction(n)]

\* The end-to-end scenario: start (0,0), finish (1,0), goal (2,2), all of
\* orientation 1; both operators return [goal]; signal order (loc, orient).
Scenario ==
    /\ Yielded
    /\ traj_call.start = Position(Loc(0, 0), Orient(1))
    /\ traj_call.finish = Position(Loc(1, 0), Orient(1))
    /\ traj_call.goal = Position(Loc(2, 2), Orient(1))
    /\ traj_call.lang.signal_order = <<"loc", "orient">>
    /\ c1 = <<traj_call.goal>>
    /\ c2 = <<traj_call.goal>>

TimesAt(t, loc) == Cardinality({i \in 1..Len(t) : t[i].loc = loc})

\* C5 as stated: in the scenario every trajectory starts at (0,0), has a
\* position at (2,2) at least twice, and ends at (1,0).
C5_GoalTwice ==
    Scenario =>
        \A n \in 1..Len(traj_call.out) :
            /\ traj_call.out[n][1].loc = Loc(0, 0)
            /\ TimesAt(traj_call.out[n], Loc(2, 2)) >= 2
            /\ traj_call.out[n][Len(traj_call.out[n])].loc = Loc(1, 0)

\* C5 as amended: in the scenario every trajectory starts at (0,0), has a
\* position at (2,2) exactly once, and ends at (1,0).
C5_GoalOnce ==
    Scenario =>
        /\ traj_call.out # <<>>
        /\ \A n \in 1..Len(traj_call.out) :
               /\ traj_call.out[n][1].loc = Loc(0, 0)
               /\ TimesAt(traj_call.out[n], Loc(2, 2)) = 1
               /\ traj_call.out[n][Len(traj_call.out[n])].loc = Loc(1, 0)

C5_Witness == Scenario /\ Len(traj_call.out) = 18

\* What the operators of the call's language return for its goal.
LocSeq == OperatorCall(traj_call.lang.loc_opr, vals[traj_call.lang.loc_opr],
                       traj_call.goal)
OrientSeq == OperatorCall(traj_call.lang.orient_opr,
                          vals[traj_call.lang.orient_opr], traj_call.goal)
ReturnsEmpty(res) == res.raised = None /\ res.seq = <<>>

\* C8: if the location operator or the orientation operator returns an empty
\* sequence, iterating ext_trajects ends in an error and yields no trajectory.
C8_EmptyFails ==
    (traj_call.op = "ext_trajects"
        /\ (ReturnsEmpty(LocSeq) \/ ReturnsEmpty(OrientSeq))) =>
        /\ traj_call.raised # None
        /\ traj_call.out = <<>>

C8_Witness ==
    /\ traj_call.op = "ext_trajects"
    /\ ReturnsEmpty(OrientSeq) /\ ~ReturnsEmpty(LocSeq)
    /\ LocSeq.raised = None
    /\ traj_call.raised = "IndexError"

\* C10: ext_trajects yields one trajectory for every choice of connecting
\* routes: #start x #mid x #end when comm_seq_1's last position differs from
\* comm_seq_2's first, #start x #end when they are equal; none is yielded
\* twice.
C10_Cartesian ==
    Yielded =>
        LET n_start == Len(direct_routes(traj_call.start, c1[1]))
            n_mid == Len(direct_routes(c1[Len(c1)], c2[1]))
            n_end == Len(direct_routes(c2[Len(c2)], traj_call.finish))
        IN  /\ ~Overlap => Len(traj_call.out) = n_start * n_mid * n_end
            /\ Overlap => Len(traj_call.out) = n_start * n_end
            /\ Cardinality({traj_call.out[n] : n \in 1..Len(traj_call.out)})
                   = Len(traj_call.out)

C10_Witness ==
    /\ Yielded /\ ~Overlap
    /\ Len(traj_call.start_seqs) = 6
    /\ Len(traj_call.mid_seqs) = 2
    /\ Len(traj_call.end_seqs) = 3
    /\ Len(traj_call.out) = 36

-----------------------------------------------------------------------------
(* Properties of the operators' bound values (Spec).                       *)

\* C9: once a Language has been constructed, the values bound to the
\* operators are not changed by any later operation.
C9_ConfiguredOnce == [][langs # <<>> => vals' = vals]_vars

-----------------------------------------------------------------------------
(* Properties of the stitched trajectories as walks (SpecCompose).         *)

\* A location is adjacent to itself and to the location up, right, down or
\* left of it.
Adjacent(p, q) == Abs(p.loc.x - q.loc.x) + Abs(p.loc.y - q.loc.y) <= 1
AdjacentSeq(seq) == \A i \in 1..(Len(seq) - 1) : Adjacent(seq[i], seq[i + 1])

\* C11: provided each operator's output is a sequence of adjacent positions,
\* every trajectory yielded starts at start's location, ends at finish's
\* location, and each pair of consecutive positions is at the same location
\* or one cardinal step apart, with and without overlap, in either signal
\* order.
C11_Walk ==
    (Yielded /\ AdjacentSeq(c1) /\ AdjacentSeq(c2)) =>
        \A n \in 1..Len(traj_call.out) :
            LET t == traj_call.out[n]
            IN  /\ Len(t) >= 1
                /\ t[1].loc = traj_call.start.loc
                /\ t[Len(t)].loc = traj_call.finish.loc
                /\ AdjacentSeq(t)

\* Without overlap: walk first, then a wiggle that steps off the grid, and a
\* connecting route of three positions between the two.
C11_Witness ==
    /\ Yielded /\ ~Overlap
    /\ AdjacentSeq(c1) /\ AdjacentSeq(c2)
    /\ traj_call.lang.signal_order = <<"loc", "orient">>
    /\ traj_call.lang.loc_opr = "walk"
    /\ traj_call.lang.orient_opr = "wiggle"
    /\ \E i \in 1..Len(c2) : ~on_grid(c2[i].loc)
    /\ \E n \in 1..Len(traj_call.out) : Len(Inner(MidSeg(n))) = 1
    /\ Len(traj_call.out) > 1

-----------------------------------------------------------------------------
(* Properties of the seams of the stitched trajectories (SpecCompose).     *)

\* The building blocks the n-th trajectory is made of, in order.
Blocks(n) ==
    IF Overlap
    THEN <<AllButLast(StartSeg(n)), c1, Tail(c2), Tail(FinishSeg(n))>>
    ELSE <<AllButLast(StartSeg(n)), c1, Inner(MidSeg(n)), c2, Tail(FinishSeg(n))>>

RECURSIVE TotalLen(_, _)
TotalLen(blocks, k) == IF k = 0 THEN 0 ELSE TotalLen(blocks, k - 1) + Len(blocks[k])

\* The index of the last element before each boundary between blocks.
Cuts(n) == {TotalLen(Blocks(n), k) : k \in 1..(Len(Blocks(n)) - 1)}

\* The offsets in the n-th trajectory at which comm_seq_1 and comm_seq_2
\* lie; with overlap comm_seq_2's first position is comm_seq_1's last.
Comm1At(n) == Len(StartSeg(n)) - 1
Comm2At(n) ==
    IF Overlap THEN Comm1At(n) + Len(c1) - 1
    ELSE Comm1At(n) + Len(c1) + Len(Inner(MidSeg(n)))

\* C12 as stated: in every trajectory yielded, at each boundary between
\* adjacent building blocks the elements on either side of the boundary are
\* not equal positions.
C12_NoRepeatAtSeams ==
    Yielded =>
        \A n \in 1..Len(traj_call.out) :
            \A p \in Cuts(n) :
                (1 <= p /\ p < Len(traj_call.out[n])) =>
                    traj_call.out[n][p] # traj_call.out[n][p + 1]

\* C12 as amended: every trajectory yielded holds comm_seq_1 and comm_seq_2
\* whole (with overlap sharing the junction position), and any two consecutive
\* equal positions of it are two consecutive positions of one operator's
\* output; so the sides of a boundary are equal only with overlap, where
\* comm_seq_2[1] follows comm_seq_1's last position and comm_seq_2 itself
\* begins with a repeat.
C12_RepeatsInsideOperators ==
    Yielded =>
        \A n \in 1..Len(traj_call.out) :
            LET t == traj_call.out[n]
                a == Comm1At(n)
                b == Comm2At(n)
            IN  /\ SubSeq(t, a + 1, a + Len(c1)) = c1
                /\ SubSeq(t, b + 1, b + Len(c2)) = c2
                /\ \A i \in 1..(Len(t) - 1) :
                       t[i] = t[i + 1] =>
                           \/ a + 1 <= i /\ i + 1 <= a + Len(c1)
                           \/ b + 1 <= i /\ i + 1 <= b + Len(c2)
                /\ \A p \in Cuts(n) :
                       (1 <= p /\ p < Len(t) /\ t[p] = t[p + 1]) =>
                           /\ Overlap
                           /\ p = Junction(n)
                           /\ Len(c2) >= 2 /\ c2[2] = c2[1]

\* With overlap: a walk that leaves the goal and comes back, then a pauze,
\* whose repeat follows the junction.
C12_Witness ==
    /\ Yielded /\ Overlap
    /\ traj_call.lang.loc_opr = "walk" /\ traj_call.lang.orient_opr = "pauze"
    /\ traj_call.lang.signal_order = <<"loc", "orient">>
    /\ Len(c1) = 3 /\ Len(c2) = 2
    /\ Len(traj_call.out) > 1
    /\ \A n \in 1..Len(traj_call.out) :
           /\ Junction(n) \in Cuts(n)
           /\ traj_call.out[n][Junction(n)] = traj_call.out[n][Junction(n) + 1]

====
